---- MODULE Spec2Model ----
(***************************************************************************)
(* Model of spi_flash.py: one run of the script's main block.              *)
(*   initialize_ftdi -> read_jedec_id -> read_flash_chip -> close          *)
(* The FTDI bridge (pyftdi) and the file system are the environment: each  *)
(* call into them either raises or returns, chosen nondeterministically.   *)
(* Disk writes to an opened output file are taken to succeed.              *)
(***************************************************************************)
EXTENDS Integers, Sequences, FiniteSets, TLC

(* ---------------- bounds of the model ---------------- *)
\* largest chip size (bytes) a run is started with
MaxSize == 3
\* largest chunk size (bytes)
MaxChunk == 2
\* cap on the number of fast-read exchanges of one run (an exchange that
\* returns no bytes makes the loop repeat the same request)
MaxReads == 4
\* cap on the number of exchanges followed from a cursor of the 16 MiB space
MaxAddrReads == 3
\* progress runs: the size is this many times 10 chunks (plus 0 or 1 byte)
MaxReports == 2
\* progress runs: exchanges of a run that may return fewer bytes than asked
\* for, which is also the number of exchanges beyond ceil(size / CHUNK_SIZE)
MaxStall == 1

(* ---------------- program constants ---------------- *)
CMD_READ_JEDEC_ID == 159
CMD_FAST_READ_DATA == 11
EXPECTED_JEDEC_ID == <<28, 112, 24>>
\* the dummy byte that ends the fast-read command buffer
DUMMY_BYTE == 0
\* readlen of the JEDEC exchange
JEDEC_READLEN == 3
\* progress is printed when bytes_read is a multiple of CHUNK_SIZE * 10
PROGRESS_EVERY == 10
\* 16 * 1024 * 1024, the size the main block passes to read_flash_chip
FLASH_SIZE_BYTES == 16777216
\* the chunk size read_flash_chip uses
CHUNK_SIZE_BYTES == 4096

VARIABLES
    pc,          \* position of the script
    size,        \* read_flash_chip's size argument
    CHUNK_SIZE,  \* read_flash_chip's chunk size
    channel,     \* the bridge channel: "unopened", "open", "closed"
    closeCount,  \* number of controller.close() calls
    spi_port,    \* TRUE iff initialize_ftdi returned a port
    initCause,   \* why initialize_ftdi failed ("none" when it did not)
    initText,    \* str(e) of the exception initialize_ftdi caught
    hint,        \* TRUE iff the claimed-device / permission note was printed
    txlog,       \* every exchange issued: [cmd, readlen]
    jedec_id,    \* the bytes the JEDEC exchange returned
    report,      \* "none", "Verified", "Mismatched"
    fileState,   \* output file: "absent", "open", "closed"
    fileData,    \* bytes of the output file
    openCount,   \* number of times the output file was created/truncated
    bytes_read,  \* the read cursor
    data,        \* the chunk returned by the exchange in progress
    resplog,     \* the chunks returned so far: [offset, req, data]
    errOffsets,  \* offsets printed by "Error reading flash at offset"
    retval,      \* read_flash_chip's result: "none", "True", "False"
    progress,    \* cursor values printed as progress inside the loop
    raised       \* exception propagating out of the try block ("none" if none)

vars == <<pc, size, CHUNK_SIZE, channel, closeCount, spi_port, initCause,
          initText, hint, txlog, jedec_id, report, fileState, fileData,
          openCount, bytes_read, data, resplog, errOffsets, retval, progress,
          raised>>

(* ---------------- helpers ---------------- *)
Min(a, b) == IF a < b THEN a ELSE b

\* all sequences over S of length n
SeqsOfLen(S, n) == [1..n -> S]

\* all sequences over S of length 0..n
SeqsUpTo(S, n) == UNION {SeqsOfLen(S, k) : k \in 0..n}

RECURSIVE Flatten(_)
Flatten(ss) == IF ss = <<>> THEN <<>> ELSE Head(ss) \o Flatten(Tail(ss))

(* ---------------- initialize_ftdi ---------------- *)
\* str.lower() on the words the exception texts are made of
Lower(w) ==
    CASE w = "Device" -> "device"
      [] w = "Unable" -> "unable"
      [] w = "Input" -> "input"
      [] w = "Unsupported" -> "unsupported"
      [] OTHER -> w

LowerText(text) == [i \in DOMAIN text |-> Lower(text[i])]

\* phrase in text (Python's substring test, on words)
Contains(text, phrase) ==
    \E i \in 0..(Len(text) - Len(phrase)) :
        \A j \in 1..Len(phrase) : text[i + j] = phrase[j]

\* line 63: the condition under which the claimed-device note is printed
HintPrinted(text) ==
    \/ Contains(LowerText(text), <<"unable", "to", "open">>)
    \/ Contains(LowerText(text), <<"device", "not", "found">>)

\* exceptions spi.configure(ftdi_url) can raise, by cause; the texts of the
\* first two are the ones line 63 tests for
OpenErrors ==
    { [cause |-> "NotFound", text |-> <<"Device", "not", "found">>],
      [cause |-> "Busy",     text |-> <<"Unable", "to", "open", "device">>],
      [cause |-> "IO",       text |-> <<"Input", "output", "error">>] }

\* exceptions port.set_frequency / port.set_mode can raise
ConfigErrors ==
    { [cause |-> "Config", text |-> <<"Unsupported", "frequency">>] }

\* variant of InitExcept: the port obtained before the failure is returned
InitExcept_keepsPort(e) ==
    /\ initCause' = e.cause
    /\ initText' = e.text
    /\ hint' = HintPrinted(e.text)
    /\ spi_port' = (channel = "open")
    /\ pc' = "main_if"

\* the except block of initialize_ftdi: print, maybe the note, return None, None
InitExcept(e) ==
    /\ initCause' = e.cause
    /\ initText' = e.text
    /\ hint' = HintPrinted(e.text)
    /\ spi_port' = FALSE
    /\ pc' = "main_if"

\* spi.configure(ftdi_url) opens the channel; port = spi.get_port(0)
SpiConfigureOk ==
    /\ pc = "configure"
    /\ channel' = "open"
    /\ pc' = "set_frequency"
    /\ UNCHANGED <<size, CHUNK_SIZE, closeCount, spi_port, initCause, initText,
                   hint, txlog, jedec_id, report, fileState, fileData,
                   openCount, bytes_read, data, resplog, errOffsets, retval,
                   progress, raised>>

SpiConfigureRaises(e) ==
    /\ pc = "configure"
    /\ InitExcept(e)
    /\ UNCHANGED <<size, CHUNK_SIZE, channel, closeCount, txlog, jedec_id,
                   report, fileState, fileData, openCount, bytes_read, data,
                   resplog, errOffsets, retval, progress, raised>>

SetFrequencyOk ==
    /\ pc = "set_frequency"
    /\ pc' = "set_mode"
    /\ UNCHANGED <<size, CHUNK_SIZE, channel, closeCount, spi_port, initCause,
                   initText, hint, txlog, jedec_id, report, fileState,
                   fileData, openCount, bytes_read, data, resplog, errOffsets,
                   retval, progress, raised>>

\* set_frequency raises with the channel open: the except block returns
\* None, None and does not close spi
SetFrequencyRaises(e) ==
    /\ pc = "set_frequency"
    /\ InitExcept(e)
    /\ UNCHANGED <<size, CHUNK_SIZE, channel, closeCount, txlog, jedec_id,
                   report, fileState, fileData, openCount, bytes_read, data,
                   resplog, errOffsets, retval, progress, raised>>

\* port.set_mode(0); return spi, port
SetModeOk ==
    /\ pc = "set_mode"
    /\ spi_port' = TRUE
    /\ pc' = "main_if"
    /\ UNCHANGED <<size, CHUNK_SIZE, channel, closeCount, initCause, initText,
                   hint, txlog, jedec_id, report, fileState, fileData,
                   openCount, bytes_read, data, resplog, errOffsets, retval,
                   progress, raised>>

SetModeRaises(e) ==
    /\ pc = "set_mode"
    /\ InitExcept(e)
    /\ UNCHANGED <<size, CHUNK_SIZE, channel, closeCount, txlog, jedec_id,
                   report, fileState, fileData, openCount, bytes_read, data,
                   resplog, errOffsets, retval, progress, raised>>

(* ---------------- main block ---------------- *)
\* variant of MainTry: the full read is started without the identity check
MainTry_skipIdentify ==
    /\ pc = "main_if"
    /\ spi_port
    /\ pc' = "open_file"
    /\ UNCHANGED <<size, CHUNK_SIZE, channel, closeCount, spi_port, initCause,
                   initText, hint, txlog, jedec_id, report, fileState,
                   fileData, openCount, bytes_read, data, resplog, errOffsets,
                   retval, progress, raised>>

\* if spi_port: enter the try block
MainTry ==
    /\ pc = "main_if"
    /\ spi_port
    /\ pc' = "jedec"
    /\ UNCHANGED <<size, CHUNK_SIZE, channel, closeCount, spi_port, initCause,
                   initText, hint, txlog, jedec_id, report, fileState,
                   fileData, openCount, bytes_read, data, resplog, errOffsets,
                   retval, progress, raised>>

\* else: "FTDI device initialization failed. Cannot proceed."
MainElse ==
    /\ pc = "main_if"
    /\ ~spi_port
    /\ pc' = "done"
    /\ UNCHANGED <<size, CHUNK_SIZE, channel, closeCount, spi_port, initCause,
                   initText, hint, txlog, jedec_id, report, fileState,
                   fileData, openCount, bytes_read, data, resplog, errOffsets,
                   retval, progress, raised>>

\* finally: controller.close()
Finally ==
    /\ pc = "finally"
    /\ closeCount' = closeCount + 1
    /\ channel' = "closed"
    /\ pc' = IF raised = "none" THEN "done" ELSE "crashed"
    /\ UNCHANGED <<size, CHUNK_SIZE, spi_port, initCause, initText, hint,
                   txlog, jedec_id, report, fileState, fileData, openCount,
                   bytes_read, data, resplog, errOffsets, retval, progress,
                   raised>>

(* ---------------- read_jedec_id ---------------- *)
\* bytes the chip may answer the JEDEC command with: each field either the
\* expected one or another value
JedecFull ==
    { <<m, t, c>> : m \in {EXPECTED_JEDEC_ID[1], 0},
                    t \in {EXPECTED_JEDEC_ID[2], 0},
                    c \in {EXPECTED_JEDEC_ID[3], 255} }

\* exchange returns at most readlen bytes
JedecResponses ==
    JedecFull \cup { SubSeq(r, 1, k) : r \in JedecFull, k \in 0..(JEDEC_READLEN - 1) }

\* lines 86-90: the comparison with EXPECTED_JEDEC_ID
JedecVerdict(id) ==
    IF <<id[1], id[2], id[3]>> = EXPECTED_JEDEC_ID THEN "Verified" ELSE "Mismatched"

\* variant of JedecExceptResult: the except block reports success
JedecExceptResult_true == TRUE

\* line 95: what read_jedec_id returns from its except block
JedecExceptResult == FALSE

\* line 91: what read_jedec_id returns after the comparison
JedecOkResult == TRUE

\* variant of AfterJedec: a mismatched identity stops the run
AfterJedec_strict(ok) ==
    IF ok /\ report' = "Verified" THEN "open_file" ELSE "finally"

\* lines 160-164: where the main block goes with read_jedec_id's result
AfterJedec(ok) == IF ok THEN "open_file" ELSE "finally"

JedecRequest == [cmd |-> <<CMD_READ_JEDEC_ID>>, readlen |-> JEDEC_READLEN]

\* spi_port.exchange raises
JedecRaises ==
    /\ pc = "jedec"
    /\ txlog' = Append(txlog, JedecRequest)
    /\ pc' = AfterJedec(JedecExceptResult)
    /\ UNCHANGED <<size, CHUNK_SIZE, channel, closeCount, spi_port, initCause,
                   initText, hint, jedec_id, report, fileState, fileData,
                   openCount, bytes_read, data, resplog, errOffsets, retval,
                   progress, raised>>

\* spi_port.exchange returns r; indexing a short r raises IndexError, which
\* the except block catches
JedecReturns(r) ==
    /\ pc = "jedec"
    /\ txlog' = Append(txlog, JedecRequest)
    /\ jedec_id' = r
    /\ IF Len(r) < 3
       THEN /\ pc' = AfterJedec(JedecExceptResult)
            /\ UNCHANGED report
       ELSE /\ report' = JedecVerdict(r)
            /\ pc' = AfterJedec(JedecOkResult)
    /\ UNCHANGED <<size, CHUNK_SIZE, channel, closeCount, spi_port, initCause,
                   initText, hint, fileState, fileData, openCount, bytes_read,
                   data, resplog, errOffsets, retval, progress, raised>>

(* ---------------- read_flash_chip ---------------- *)
\* values of a byte of flash content
DataBytes == {0, 255}

\* variant of AddressBytes: the bytes are not masked with 0xFF
AddressBytes_noMask(o) ==
    << o \div 65536, o \div 256, o >>

\* lines 114-116
AddressBytes(o) ==
    << (o \div 65536) % 256, (o \div 256) % 256, o % 256 >>

\* variant of LoopContinues: the loop test is off by one
LoopContinues_inclusive(o, sz) == o <= sz

\* line 112: while bytes_read < size
LoopContinues(o, sz) == o < sz

\* variant of CommandBuffer: the dummy byte is left out
CommandBuffer_noDummy(o) == <<CMD_FAST_READ_DATA>> \o AddressBytes(o)

\* line 119
CommandBuffer(o) == <<CMD_FAST_READ_DATA>> \o AddressBytes(o) \o <<DUMMY_BYTE>>

\* variant of BytesToRead: always a whole chunk
BytesToRead_noMin(o, sz, cs) == cs

\* line 122
BytesToRead(o, sz, cs) == Min(cs, sz - o)

\* variant of NextCursor: the cursor advances by the chunk size, not by the
\* number of bytes returned
NextCursor_byChunk(o, d) == o + CHUNK_SIZE

\* variant of NextCursor: the cursor advances by the number of bytes asked for
NextCursor_byRequested(o, d) == o + BytesToRead(o, size, CHUNK_SIZE)

\* variant of NextCursor: the cursor is not advanced
NextCursor_stuck(o, d) == o

\* line 128
NextCursor(o, d) == o + Len(d)

\* variant of ProgressDue: progress after every whole chunk
ProgressDue_everyChunk(o, cs) == o % cs = 0

\* line 131
ProgressDue(o, cs) == o % (cs * PROGRESS_EVERY) = 0

\* what exchange(command_buffer, readlen=n) can return: at most n bytes
Responses(n) == SeqsUpTo(DataBytes, n)

FastReadRequest(o, sz, cs) ==
    [cmd |-> CommandBuffer(o), readlen |-> BytesToRead(o, sz, cs)]

\* with open(output_file, 'wb') as f: creates or truncates the file
OpenFileOk ==
    /\ pc = "open_file"
    /\ bytes_read' = 0
    /\ fileState' = "open"
    /\ fileData' = <<>>
    /\ openCount' = openCount + 1
    /\ pc' = "loop"
    /\ UNCHANGED <<size, CHUNK_SIZE, channel, closeCount, spi_port, initCause,
                   initText, hint, txlog, jedec_id, report, data, resplog,
                   errOffsets, retval, progress, raised>>

\* open raises OSError: not caught in read_flash_chip, reaches the finally
OpenFileRaises ==
    /\ pc = "open_file"
    /\ bytes_read' = 0
    /\ raised' = "OSError"
    /\ pc' = "finally"
    /\ UNCHANGED <<size, CHUNK_SIZE, channel, closeCount, spi_port, initCause,
                   initText, hint, txlog, jedec_id, report, fileState,
                   fileData, openCount, data, resplog, errOffsets, retval,
                   progress>>

\* lines 112-126: loop test true, exchange returns d; cap bounds the number
\* of exchanges of the run
ExchangeReturnsUpTo(d, cap) ==
    /\ pc = "loop"
    /\ LoopContinues(bytes_read, size)
    /\ Len(txlog) <= cap
    /\ txlog' = Append(txlog, FastReadRequest(bytes_read, size, CHUNK_SIZE))
    /\ data' = d
    /\ resplog' = Append(resplog,
                         [offset |-> bytes_read,
                          req |-> BytesToRead(bytes_read, size, CHUNK_SIZE),
                          data |-> d])
    /\ pc' = "write"
    /\ UNCHANGED <<size, CHUNK_SIZE, channel, closeCount, spi_port, initCause,
                   initText, hint, jedec_id, report, fileState, fileData,
                   openCount, bytes_read, errOffsets, retval, progress,
                   raised>>

ExchangeReturns(d) == ExchangeReturnsUpTo(d, MaxReads)

\* variant of ExchangeRaises: the partial file is truncated on failure
ExchangeRaises_rollback ==
    /\ pc = "loop"
    /\ bytes_read < size
    /\ Len(txlog) <= MaxReads
    /\ txlog' = Append(txlog, FastReadRequest(bytes_read, size, CHUNK_SIZE))
    /\ errOffsets' = Append(errOffsets, bytes_read)
    /\ retval' = "False"
    /\ fileState' = "closed"
    /\ fileData' = <<>>
    /\ pc' = "finally"
    /\ UNCHANGED <<size, CHUNK_SIZE, channel, closeCount, spi_port, initCause,
                   initText, hint, jedec_id, report, openCount,
                   bytes_read, data, resplog, progress, raised>>

\* variant of ExchangeRaises: the failed chunk is requested again
ExchangeRaises_retry ==
    /\ pc = "loop"
    /\ bytes_read < size
    /\ Len(txlog) <= MaxReads
    /\ txlog' = Append(txlog, FastReadRequest(bytes_read, size, CHUNK_SIZE))
    /\ errOffsets' = Append(errOffsets, bytes_read)
    /\ pc' = "loop"
    /\ UNCHANGED <<size, CHUNK_SIZE, channel, closeCount, spi_port, initCause,
                   initText, hint, jedec_id, report, fileState, fileData,
                   openCount, bytes_read, data, resplog, retval, progress,
                   raised>>

\* lines 136-139: exchange raises; print the offset, return False (the with
\* block closes the file)
ExchangeRaisesUpTo(cap) ==
    /\ pc = "loop"
    /\ LoopContinues(bytes_read, size)
    /\ Len(txlog) <= cap
    /\ txlog' = Append(txlog, FastReadRequest(bytes_read, size, CHUNK_SIZE))
    /\ errOffsets' = Append(errOffsets, bytes_read)
    /\ retval' = "False"
    /\ fileState' = "closed"
    /\ pc' = "finally"
    /\ UNCHANGED <<size, CHUNK_SIZE, channel, closeCount, spi_port, initCause,
                   initText, hint, jedec_id, report, fileData, openCount,
                   bytes_read, data, resplog, progress, raised>>

ExchangeRaises == ExchangeRaisesUpTo(MaxReads)

\* variant of WriteChunk: each chunk replaces the file's content
WriteChunk_overwrite ==
    /\ pc = "write"
    /\ fileData' = data
    /\ pc' = "advance"
    /\ UNCHANGED <<size, CHUNK_SIZE, channel, closeCount, spi_port, initCause,
                   initText, hint, txlog, jedec_id, report, fileState,
                   openCount, bytes_read, data, resplog, errOffsets, retval,
                   progress, raised>>

\* line 127: f.write(data)
WriteChunk ==
    /\ pc = "write"
    /\ fileData' = fileData \o data
    /\ pc' = "advance"
    /\ UNCHANGED <<size, CHUNK_SIZE, channel, closeCount, spi_port, initCause,
                   initText, hint, txlog, jedec_id, report, fileState,
                   openCount, bytes_read, data, resplog, errOffsets, retval,
                   progress, raised>>

\* lines 128-134: bytes_read += len(data), then the progress line
Advance ==
    /\ pc = "advance"
    /\ bytes_read' = NextCursor(bytes_read, data)
    /\ progress' = IF ProgressDue(bytes_read', CHUNK_SIZE)
                   THEN Append(progress, bytes_read')
                   ELSE progress
    /\ pc' = "loop"
    /\ UNCHANGED <<size, CHUNK_SIZE, channel, closeCount, spi_port, initCause,
                   initText, hint, txlog, jedec_id, report, fileState,
                   fileData, openCount, data, resplog, errOffsets, retval,
                   raised>>

\* variant of Complete: the file is left open when the loop ends
Complete_leavesOpen ==
    /\ pc = "loop"
    /\ ~LoopContinues(bytes_read, size)
    /\ retval' = "True"
    /\ pc' = "finally"
    /\ UNCHANGED <<size, CHUNK_SIZE, channel, closeCount, spi_port, initCause,
                   initText, hint, txlog, jedec_id, report, fileState,
                   fileData, openCount, bytes_read, data, resplog, errOffsets,
                   progress, raised>>

\* lines 112, 141-148: loop test false; the with block closes the file,
\* return True
Complete ==
    /\ pc = "loop"
    /\ ~LoopContinues(bytes_read, size)
    /\ fileState' = "closed"
    /\ retval' = "True"
    /\ pc' = "finally"
    /\ UNCHANGED <<size, CHUNK_SIZE, channel, closeCount, spi_port, initCause,
                   initText, hint, txlog, jedec_id, report, fileData,
                   openCount, bytes_read, data, resplog, errOffsets, progress,
                   raised>>

\* variant of Interrupt: the interrupt ends the script at once, no finally
Interrupt_noFinally ==
    /\ pc \in {"jedec", "open_file", "loop", "write", "advance"}
    /\ raised' = "KeyboardInterrupt"
    /\ fileState' = IF fileState = "open" THEN "closed" ELSE fileState
    /\ pc' = "crashed"
    /\ UNCHANGED <<size, CHUNK_SIZE, channel, closeCount, spi_port, initCause,
                   initText, hint, txlog, jedec_id, report, fileData,
                   openCount, bytes_read, data, resplog, errOffsets, retval,
                   progress>>

\* KeyboardInterrupt inside the try block: not an Exception, so no except
\* block catches it; the with block closes the file, the finally runs
Interrupt ==
    /\ pc \in {"jedec", "open_file", "loop", "write", "advance"}
    /\ raised' = "KeyboardInterrupt"
    /\ fileState' = IF fileState = "open" THEN "closed" ELSE fileState
    /\ pc' = "finally"
    /\ UNCHANGED <<size, CHUNK_SIZE, channel, closeCount, spi_port, initCause,
                   initText, hint, txlog, jedec_id, report, fileData,
                   openCount, bytes_read, data, resplog, errOffsets, retval,
                   progress>>

(* ---------------- specification ---------------- *)
Init ==
    /\ pc = "configure"
    /\ size \in 1..MaxSize
    /\ CHUNK_SIZE \in 1..MaxChunk
    /\ channel = "unopened"
    /\ closeCount = 0
    /\ spi_port = FALSE
    /\ initCause = "none"
    /\ initText = <<>>
    /\ hint = FALSE
    /\ txlog = <<>>
    /\ jedec_id = <<>>
    /\ report = "none"
    /\ fileState = "absent"
    /\ fileData = <<>>
    /\ openCount = 0
    /\ bytes_read = 0
    /\ data = <<>>
    /\ resplog = <<>>
    /\ errOffsets = <<>>
    /\ retval = "none"
    /\ progress = <<>>
    /\ raised = "none"

Next ==
    \/ SpiConfigureOk
    \/ \E e \in OpenErrors : SpiConfigureRaises(e)
    \/ SetFrequencyOk
    \/ \E e \in ConfigErrors : SetFrequencyRaises(e)
    \/ SetModeOk
    \/ \E e \in ConfigErrors : SetModeRaises(e)
    \/ MainTry
    \/ MainElse
    \/ JedecRaises
    \/ \E r \in JedecResponses : JedecReturns(r)
    \/ OpenFileOk
    \/ OpenFileRaises
    \/ \E d \in Responses(BytesToRead(bytes_read, size, CHUNK_SIZE)) :
           ExchangeReturns(d)
    \/ ExchangeRaises
    \/ WriteChunk
    \/ Advance
    \/ Complete
    \/ Interrupt
    \/ Finally

Spec == Init /\ [][Next]_vars

\* a step of the script itself: any step but the arrival of an interrupt
ProgramStep == Next /\ ~Interrupt

\* the script is one sequential thread: whenever it has a next step it
\* takes one; an interrupt may arrive or not
SpecFair == Spec /\ WF_vars(ProgramStep)

(* ---------------- runs long enough for progress lines ---------------- *)
\* sizes of 10, 20, ... chunks, and one byte more
ProgressSizes(cs) ==
    { PROGRESS_EVERY * cs * k + e : k \in 1..MaxReports, e \in {0, 1} }

\* exchanges of the run so far that returned fewer bytes than asked for
ShortReads ==
    Cardinality({ i \in DOMAIN resplog :
                    Len(resplog[i].data) < resplog[i].req })

\* exchange returns the n bytes asked for, or one less for at most MaxStall
\* exchanges of a run; content is not varied
ProgressResponses(n) ==
    { [i \in 1..k |-> 0] :
        k \in { j \in {n - 1, n} :
                 j >= 0 /\ (j = n \/ ShortReads < MaxStall) } }

\* JEDEC answers of these runs: the expected one, a mismatch, nothing
ProgressJedec == { EXPECTED_JEDEC_ID, <<0, 0, 255>>, <<>> }

ProgressReadCap == (size + CHUNK_SIZE - 1) \div CHUNK_SIZE + MaxStall

InitProgress ==
    /\ pc = "configure"
    /\ CHUNK_SIZE \in 1..MaxChunk
    /\ size \in ProgressSizes(CHUNK_SIZE)
    /\ channel = "unopened"
    /\ closeCount = 0
    /\ spi_port = FALSE
    /\ initCause = "none"
    /\ initText = <<>>
    /\ hint = FALSE
    /\ txlog = <<>>
    /\ jedec_id = <<>>
    /\ report = "none"
    /\ fileState = "absent"
    /\ fileData = <<>>
    /\ openCount = 0
    /\ bytes_read = 0
    /\ data = <<>>
    /\ resplog = <<>>
    /\ errOffsets = <<>>
    /\ retval = "none"
    /\ progress = <<>>
    /\ raised = "none"

NextProgress ==
    \/ SpiConfigureOk
    \/ \E e \in OpenErrors : SpiConfigureRaises(e)
    \/ SetFrequencyOk
    \/ \E e \in ConfigErrors : SetFrequencyRaises(e)
    \/ SetModeOk
    \/ \E e \in ConfigErrors : SetModeRaises(e)
    \/ MainTry
    \/ MainElse
    \/ JedecRaises
    \/ \E r \in ProgressJedec : JedecReturns(r)
    \/ OpenFileOk
    \/ OpenFileRaises
    \/ \E d \in ProgressResponses(BytesToRead(bytes_read, size, CHUNK_SIZE)) :
           ExchangeReturnsUpTo(d, ProgressReadCap)
    \/ ExchangeRaisesUpTo(ProgressReadCap)
    \/ WriteChunk
    \/ Advance
    \/ Complete
    \/ Interrupt
    \/ Finally

SpecProgress == InitProgress /\ [][NextProgress]_vars

(* ---------------- the read loop in the 16 MiB address space ---------------- *)
\* The loop is observed from a cursor it can have reached, with the real
\* chunk size; fileData holds the bytes appended since then.
AddrByteSamples == {0, 1, 255}

\* cursors: every address byte at its extremes, and the chunk boundaries
\* around the 24-bit ceiling
AddrCursors ==
    { a * 65536 + b * 256 + c :
        a \in AddrByteSamples, b \in AddrByteSamples, c \in AddrByteSamples }
    \cup { FLASH_SIZE_BYTES - k * CHUNK_SIZE_BYTES : k \in 0..2 }

\* sizes read_flash_chip is called with: below, at and above the ceiling
AddrSizes ==
    { 65536, FLASH_SIZE_BYTES - 1, FLASH_SIZE_BYTES,
      FLASH_SIZE_BYTES + CHUNK_SIZE_BYTES }

\* exchange returns the n bytes asked for, or one less
AddrResponses(n) ==
    { [i \in 1..k |-> 0] : k \in { j \in {n - 1, n} : j >= 0 } }

InitAddr ==
    /\ pc = "loop"
    /\ size \in AddrSizes
    /\ CHUNK_SIZE = CHUNK_SIZE_BYTES
    /\ bytes_read \in { o \in AddrCursors : o <= size }
    /\ channel = "open"
    /\ closeCount = 0
    /\ spi_port = TRUE
    /\ initCause = "none"
    /\ initText = <<>>
    /\ hint = FALSE
    /\ txlog = <<JedecRequest>>
    /\ jedec_id = EXPECTED_JEDEC_ID
    /\ report = "Verified"
    /\ fileState = "open"
    /\ fileData = <<>>
    /\ openCount = 1
    /\ data = <<>>
    /\ resplog = <<>>
    /\ errOffsets = <<>>
    /\ retval = "none"
    /\ progress = <<>>
    /\ raised = "none"

NextAddr ==
    \/ \E d \in AddrResponses(BytesToRead(bytes_read, size, CHUNK_SIZE)) :
           ExchangeReturnsUpTo(d, MaxAddrReads)
    \/ ExchangeRaisesUpTo(MaxAddrReads)
    \/ WriteChunk
    \/ Advance
    \/ Complete
    \/ Finally

SpecAddr == InitAddr /\ [][NextAddr]_vars

(* ---------------- properties ---------------- *)
\* the fast-read requests issued so far (txlog without the JEDEC exchange)
ReadRequests == SelectSeq(txlog, LAMBDA t : t.cmd[1] = CMD_FAST_READ_DATA)

\* the offset a fast-read command buffer addresses (big-endian decode)
RequestOffset(t) == t.cmd[2] * 65536 + t.cmd[3] * 256 + t.cmd[4]

\* the chunks returned so far, in the order they were returned
ResponseData == [i \in DOMAIN resplog |-> resplog[i].data]

\* every exchange so far returned exactly the number of bytes requested
AllFull == \A i \in DOMAIN resplog : Len(resplog[i].data) = resplog[i].req

\* the requests reqs cover [0, total) exactly once
CoversOnce(reqs, total) ==
    /\ \A i \in DOMAIN reqs :
           /\ reqs[i].readlen >= 1
           /\ RequestOffset(reqs[i]) + reqs[i].readlen <= total
    /\ \A a \in 0..(total - 1) :
           Cardinality({ i \in DOMAIN reqs :
                           /\ RequestOffset(reqs[i]) <= a
                           /\ a < RequestOffset(reqs[i]) + reqs[i].readlen }) = 1

LastLength(total, c) == IF total % c = 0 THEN c ELSE total % c

\* C1: after each successful chunk append the output file is exactly
\* bytes_read bytes long, and bytes_read never exceeds size.
C1_CursorInvariant ==
    /\ (pc = "loop" => Len(fileData) = bytes_read)
    /\ bytes_read <= size

C1_Witness ==
    /\ pc = "loop"
    /\ Len(resplog) >= 2
    /\ bytes_read > 0
    /\ Len(fileData) = bytes_read

C3_MidTransferFailure ==
    errOffsets # <<>> =>
        /\ retval = "False"
        /\ fileState = "closed"
        /\ Len(errOffsets) = 1
        /\ errOffsets[1] = RequestOffset(ReadRequests[Len(ReadRequests)])
        /\ Len(fileData) = errOffsets[1]
        /\ fileData = Flatten(ResponseData)

C3_Witness ==
    /\ errOffsets # <<>>
    /\ errOffsets[1] > 0
    /\ Len(fileData) = errOffsets[1]
    /\ retval = "False"

\* C4: when read_flash_chip returns True the output file is exactly size
\* bytes long and is the concatenation of the returned chunks, which were
\* requested in increasing offset order.
C4_FullSuccess ==
    retval = "True" =>
        /\ Len(fileData) = size
        /\ fileData = Flatten(ResponseData)
        /\ \A i \in DOMAIN resplog :
               resplog[i].offset = Len(Flatten(SubSeq(ResponseData, 1, i - 1)))

C4_Witness ==
    /\ retval = "True"
    /\ Len(resplog) >= 2
    /\ Len(fileData) = size
    /\ \E i \in DOMAIN fileData : fileData[i] # fileData[1]

\* C5: whenever the run ends with the channel having been opened, the
\* channel was closed exactly once, and it is never closed while
\* transactions can still follow.
C5_SessionReleased ==
    /\ closeCount <= 1
    /\ (closeCount > 0 => pc \in {"done", "crashed"})
    /\ ((pc \in {"done", "crashed"} /\ channel # "unopened") =>
            (closeCount = 1 /\ channel = "closed"))

\* C6: a 3-byte JEDEC answer is reported Verified iff it equals the expected
\* tuple and Mismatched otherwise, and in both cases read_flash_chip is
\* entered next.
C6_IdentityCheck ==
    /\ (report # "none" => Len(jedec_id) = 3)
    /\ (Len(jedec_id) = 3 =>
            /\ report = (IF jedec_id = EXPECTED_JEDEC_ID
                         THEN "Verified" ELSE "Mismatched")
            /\ \/ pc = "open_file"
               \/ openCount = 1
               \/ raised # "none")

C6_Witness ==
    /\ report = "Mismatched"
    /\ pc = "loop"
    /\ fileState = "open"

\* C7: when initialize_ftdi fails, no exchange is ever issued and the output
\* file is never created or truncated.
C7_NoTransactionAfterInitFailure ==
    initCause # "none" =>
        /\ txlog = <<>>
        /\ fileState = "absent"
        /\ openCount = 0
        /\ pc \in {"main_if", "done"}

C7_Witness ==
    /\ initCause = "Busy"
    /\ pc = "done"
    /\ txlog = <<>>

\* C8: the claimed-device / permission guidance is what tells a busy channel
\* from a missing target and from other errors: it is printed exactly when
\* the channel is claimed by another owner.
C8_BusyDistinguished ==
    initCause # "none" => (hint <=> initCause = "Busy")

\* the JEDEC exchange was issued and read_jedec_id returned False
JedecFailed == Len(txlog) >= 1 /\ report = "none"

\* C9: after a failed JEDEC exchange no fast-read is issued, the output file
\* is not created or truncated, and the run ends with the channel closed.
C9_JedecFailureAborts ==
    JedecFailed =>
        /\ Len(txlog) = 1
        /\ fileState = "absent"
        /\ openCount = 0
        /\ pc \in {"finally", "done"}
        /\ (pc = "done" => (closeCount = 1 /\ channel = "closed"))

C9_Witness ==
    /\ JedecFailed
    /\ jedec_id = <<>>
    /\ pc = "done"
    /\ closeCount = 1

\* C10: once a chunk exchange has raised, no step issues another exchange
\* or changes the cursor or the output file's content.
C10_FailFast ==
    [][errOffsets # <<>> =>
          /\ txlog' = txlog
          /\ bytes_read' = bytes_read
          /\ fileData' = fileData
          /\ errOffsets' = errOffsets]_vars

C10_Witness ==
    /\ errOffsets # <<>>
    /\ pc = "done"
    /\ Len(ReadRequests) >= 2

\* the cursor each fast-read request was issued at: the offsets of the
\* answered ones, then the offset printed for the one that raised
IssuedAt == [i \in DOMAIN resplog |-> resplog[i].offset] \o errOffsets

\* C11: the three address bytes built for any cursor o in [0, 2^24) are
\* bytes, and read big-endian they give back o.
C11_AddressRoundTrip ==
    \A i \in DOMAIN ReadRequests :
        IssuedAt[i] < FLASH_SIZE_BYTES =>
            /\ \A k \in 2..4 : ReadRequests[i].cmd[k] \in 0..255
            /\ RequestOffset(ReadRequests[i]) = IssuedAt[i]

C11_Witness ==
    /\ Len(ReadRequests) >= 2
    /\ IssuedAt[2] = FLASH_SIZE_BYTES - CHUNK_SIZE_BYTES - 1
    /\ ReadRequests[2].cmd = <<11, 255, 239, 255, 0>>

IsPrefix(a, b) == Len(a) <= Len(b) /\ SubSeq(b, 1, Len(a)) = a

\* C12: the output file is created/truncated once, before the first
\* fast-read; from then on its content only grows by appending, it is
\* closed whenever read_flash_chip has ended (returned or raised), and
\* closing it and everything after leave the content as it was.
C12_ArtifactLifecycle ==
    /\ [](/\ openCount <= 1
          /\ (openCount = 0 =>
                  (fileState = "absent" /\ fileData = <<>> /\ ReadRequests = <<>>))
          /\ (openCount = 1 => fileState \in {"open", "closed"})
          /\ ((openCount = 1 /\ pc \in {"finally", "done", "crashed"}) =>
                  fileState = "closed")
          /\ (retval # "none" => fileState = "closed"))
    /\ [][openCount = 1 =>
              /\ openCount' = 1
              /\ IsPrefix(fileData, fileData')
              /\ (fileState' = "closed" => fileData' = fileData)
              /\ (fileState = "closed" => fileState' = "closed")]_vars

C12_Witness ==
    /\ pc = "done"
    /\ retval = "False"
    /\ fileState = "closed"
    /\ openCount = 1
    /\ Len(fileData) >= 2

\* C13: the first exchange of a run is the JEDEC identify (0x9F, 3 bytes)
\* and every later one is a fast-read; fast-reads are issued only after the
\* identify returned its 3 bytes and the verdict was reported; once
\* read_flash_chip has ended no exchange is issued.
C13_ProtocolOrdering ==
    /\ [](/\ (txlog # <<>> => txlog[1] = [cmd |-> <<159>>, readlen |-> 3])
          /\ (\A i \in 2..Len(txlog) : txlog[i].cmd[1] = 11)
          /\ (Len(txlog) >= 2 =>
                  /\ Len(jedec_id) = 3
                  /\ report \in {"Verified", "Mismatched"}
                  /\ openCount = 1)
          /\ (report # "none" => txlog # <<>>))
    /\ [][(retval # "none" \/ pc \in {"finally", "done", "crashed"}) =>
              txlog' = txlog]_vars

C13_Witness ==
    /\ pc = "done"
    /\ retval = "True"
    /\ report = "Verified"
    /\ Len(txlog) >= 3

\* C14: every step that issues a fast-read at cursor o appends exactly one
\* exchange, whose command is the 5 bytes 0x0B, the big-endian 3-byte
\* address of o (for o below 2^24), 0x00, and whose readlen is
\* min(CHUNK_SIZE, size - o), at least 1 and not reaching past size.
C14_FastReadRequest ==
    [][(pc = "loop" /\ txlog' # txlog) =>
          /\ Len(txlog') = Len(txlog) + 1
          /\ SubSeq(txlog', 1, Len(txlog)) = txlog
          /\ LET t == txlog'[Len(txlog')]
                 o == bytes_read
                 r == IF CHUNK_SIZE < size - o THEN CHUNK_SIZE ELSE size - o
             IN  /\ Len(t.cmd) = 5
                 /\ t.cmd[1] = 11
                 /\ t.cmd[5] = 0
                 /\ (o < FLASH_SIZE_BYTES =>
                        /\ \A k \in 2..4 : t.cmd[k] \in 0..255
                        /\ t.cmd[2] * 65536 + t.cmd[3] * 256 + t.cmd[4] = o)
                 /\ t.readlen = r
                 /\ r >= 1
                 /\ o + r <= size]_vars

C14_Witness ==
    /\ size = FLASH_SIZE_BYTES - 1
    /\ Len(ReadRequests) >= 1
    /\ ReadRequests[Len(ReadRequests)] =
           [cmd |-> <<11, 255, 240, 0, 0>>, readlen |-> CHUNK_SIZE_BYTES - 1]

\* the three address bytes of a fast-read request
RequestAddress(t) == SubSeq(t.cmd, 2, 4)

\* C15: when size is at most 2^24 (16 MiB included), the address sent with
\* every fast-read is the cursor itself, not the cursor modulo 2^24, and
\* requests issued at different cursors carry different addresses.
C15_NoWrapAtCeiling ==
    size <= FLASH_SIZE_BYTES =>
        /\ \A i \in DOMAIN ReadRequests :
               RequestOffset(ReadRequests[i]) = IssuedAt[i]
        /\ \A i, j \in DOMAIN ReadRequests :
               IssuedAt[i] # IssuedAt[j] =>
                   RequestAddress(ReadRequests[i]) # RequestAddress(ReadRequests[j])

C15_Witness ==
    /\ size = FLASH_SIZE_BYTES
    /\ retval = "True"
    /\ bytes_read = FLASH_SIZE_BYTES
    /\ Len(ReadRequests) >= 2
    /\ RequestAddress(ReadRequests[Len(ReadRequests)]) = <<255, 240, 0>>

CeilDiv(a, b) == (a + b - 1) \div b

Terminated == pc \in {"done", "crashed"}

\* C16: as long as every exchange raises or returns exactly the bytes asked
\* for, at most ceil(size / CHUNK_SIZE) fast-reads are issued and the run
\* ends; read_flash_chip returns True only if no exchange raised, False only
\* if one did, and on True the cursor equals size.
C16_Termination ==
    /\ [](/\ (AllFull => Len(ReadRequests) <= CeilDiv(size, CHUNK_SIZE))
          /\ (retval = "True" => (errOffsets = <<>> /\ bytes_read = size))
          /\ (retval = "False" <=> errOffsets # <<>>))
    /\ ([]AllFull => <>Terminated)

C16_Witness ==
    /\ Terminated
    /\ AllFull
    /\ retval = "True"
    /\ size % CHUNK_SIZE # 0
    /\ Len(ReadRequests) = CeilDiv(size, CHUNK_SIZE)
    /\ Len(ReadRequests) >= 2

\* C17: whatever number of bytes each exchange returns, the address of
\* every fast-read is the number of bytes the earlier exchanges returned,
\* which at the loop head is the length of the output file (the file has no
\* gap and no overlap), and the cursor never exceeds size.
C17_ShortResponses ==
    /\ bytes_read <= size
    /\ \A i \in DOMAIN ReadRequests :
           RequestOffset(ReadRequests[i]) =
               Len(Flatten(SubSeq(ResponseData, 1, i - 1)))
    /\ (pc = "loop" =>
            /\ fileData = Flatten(ResponseData)
            /\ bytes_read = Len(fileData))

C17_Witness ==
    \E i \in DOMAIN resplog :
        /\ Len(resplog[i].data) > 0
        /\ Len(resplog[i].data) < resplog[i].req
        /\ Len(ReadRequests) > i
        /\ RequestOffset(ReadRequests[i + 1]) =
               resplog[i].offset + Len(resplog[i].data)

Interrupted == raised = "KeyboardInterrupt"

\* C18: an interrupt during the read issues no exchange and leaves the
\* file content as written so far; from then on no exchange is issued, the
\* file is closed and keeps its content, and the channel is closed exactly
\* once, which does happen.
C18_InterruptAborts ==
    /\ [](Interrupted =>
              /\ fileState # "open"
              /\ (openCount = 1 => fileState = "closed")
              /\ pc \in {"finally", "crashed"}
              /\ closeCount <= 1
              /\ (pc = "crashed" => (closeCount = 1 /\ channel = "closed")))
    /\ [][raised' = "KeyboardInterrupt" =>
              (txlog' = txlog /\ fileData' = fileData)]_vars
    /\ (Interrupted ~> (closeCount = 1 /\ channel = "closed"))

C18_Witness ==
    /\ Interrupted
    /\ pc = "crashed"
    /\ closeCount = 1
    /\ fileState = "closed"
    /\ Len(fileData) >= 2
    /\ bytes_read < Len(fileData)

\* C19: a progress line is printed only by the step that advances the
\* cursor after an answered chunk, and only when the new cursor is a
\* multiple of 10 * CHUNK_SIZE; the step of a chunk that raised prints
\* none; when every chunk came back full, at most one line per 10 chunks
\* has been printed.
C19_ProgressCadence ==
    /\ [](/\ \A k \in DOMAIN progress :
                 /\ progress[k] % (10 * CHUNK_SIZE) = 0
                 /\ \E i \in DOMAIN resplog :
                        resplog[i].offset + Len(resplog[i].data) = progress[k]
          /\ (AllFull => 10 * Len(progress) <= Len(resplog)))
    /\ [][progress' # progress =>
              /\ pc = "advance"
              /\ errOffsets' = errOffsets
              /\ progress' = Append(progress, bytes_read')
              /\ bytes_read' = bytes_read + Len(data)]_vars
    /\ [][errOffsets' # errOffsets => progress' = progress]_vars

C19_Witness ==
    /\ retval = "True"
    /\ AllFull
    /\ Len(resplog) = 2 * PROGRESS_EVERY
    /\ progress = <<PROGRESS_EVERY * CHUNK_SIZE, 2 * PROGRESS_EVERY * CHUNK_SIZE>>

====
